---------------------------- MODULE Spec2Model ----------------------------
(***************************************************************************)
(* The save path of the buffer package (overwriteFile, Buffer.Save,        *)
(* Buffer.SaveAs, Buffer.SaveWithSudo, Buffer.SaveAsWithSudo) as a state   *)
(* machine over one buffer and one filesystem, and the plugin registry of  *)
(* package lua (LoadAllPlugins, Plugin.RegisterCallback,                   *)
(* Plugin.DoCallback).                                                     *)
(*                                                                         *)
(* Byte strings ([]byte) are kept run-length encoded: a sequence of        *)
(* <<byte, count>> runs in which neighbouring runs hold different bytes.   *)
(* The encoding is exact (every byte string has one such form), and it     *)
(* lets a line of 50,000 bytes be a value the checker can hold.  The       *)
(* bytes are ASCII, so a rune count is a byte count.                       *)
(*                                                                         *)
(* A path is the sequence of its components: "d/e/f" is <<"d","e","f">>,   *)
(* "~/f" is <<"~","f">>, an absolute path starts with the component "/".   *)
(***************************************************************************)
EXTENDS Integers, Sequences, FiniteSets, TLC

VARIABLES
    lines,       \* b.lines: the line records, no terminator included
    Path,        \* b.Path
    AbsPath,     \* b.AbsPath
    isModified,  \* b.isModified
    ModTime,     \* b.ModTime
    origHash,    \* b.origHash
    Settings,    \* b.Settings: rmtrailingws, eofnewline, mkparents, encoding, fastdirty
    Endings,     \* b.Endings: "unix" or "dos"
    Scratch,     \* b.Type.Scratch
    dirs,        \* the directories that exist (absolute paths)
    files,       \* the files that exist: absolute path -> [data, mtime]
    now,         \* the filesystem clock: the timestamp the last write got
    pc,          \* where the host stands: "idle", inside SaveAsWithSudo
                 \* ("start", "wait"), or gone ("crashed", "interrupted")
    cmd,         \* the helper of the privileged save in flight
    listeners,   \* channels registered with signal.Notify and not stopped
    forwarders,  \* goroutines ranging over such a channel
    chans,       \* chans[i]: a signal waits in the channel of the i-th save
    procs,       \* procs[i]: cmd.Process of the i-th save that has returned
    plugins,     \* the plugin registry (var plugins []*Plugin)
    last         \* what the most recent operation did and returned

vars == <<lines, Path, AbsPath, isModified, ModTime, origHash, Settings,
          Endings, Scratch, dirs, files, now, pc, cmd, listeners,
          forwarders, chans, procs, plugins, last>>

bufVars == <<lines, Path, AbsPath, isModified, ModTime, origHash, Settings,
             Endings, Scratch>>

fsVars == <<dirs, files, now>>

sudoVars == <<cmd, listeners, forwarders, chans, procs>>

--------------------------------------------------------------------------
(* Bounds of the model *)

\* most lines a buffer holds
MaxLines == 2

\* the filesystem clock stops the run after this many writes
MaxTime == 3

\* how far below the threshold the long lines start
Slack == 2

\* most privileged saves started in one run
MaxSudo == 2

\* most entries the plugins directory holds
MaxEntries == 2

--------------------------------------------------------------------------
(* Byte strings *)

LargeFileThreshold == 50000

RECURSIVE BLen(_)
\* len(data)
BLen(s) == IF s = <<>> THEN 0 ELSE s[1][2] + BLen(Tail(s))

\* the bytes of s followed by the bytes of t (what two Writes leave behind)
Cat(s, t) ==
    IF s = <<>> THEN t
    ELSE IF t = <<>> THEN s
    ELSE IF s[Len(s)][1] = t[1][1]
         THEN SubSeq(s, 1, Len(s) - 1)
                \o <<<<t[1][1], s[Len(s)][2] + t[1][2]>>>>
                \o Tail(t)
         ELSE s \o t

RECURSIVE Take(_, _)
\* the first n bytes of s
Take(s, n) ==
    IF n <= 0 \/ s = <<>> THEN <<>>
    ELSE IF s[1][2] <= n THEN Cat(<<s[1]>>, Take(Tail(s), n - s[1][2]))
    ELSE <<<<s[1][1], n>>>>

RECURSIVE Drop(_, _)
\* s without its first n bytes
Drop(s, n) ==
    IF n <= 0 \/ s = <<>> THEN s
    ELSE IF s[1][2] <= n THEN Drop(Tail(s), n - s[1][2])
    ELSE <<<<s[1][1], s[1][2] - n>>>> \o Tail(s)

\* n times the byte c
Rep(c, n) == IF n = 0 THEN <<>> ELSE <<<<c, n>>>>

\* unicode.IsSpace on the bytes of the model
IsSpace(c) == c \in {"SP", "TAB", "LF", "CR"}

--------------------------------------------------------------------------
(* Paths and the filesystem *)

\* the home directory of the user and the working directory of the editor
Home == <<"/", "h">>
Cwd == <<"/", "w">>

\* util.ReplaceHome: a leading "~" becomes the home directory; when the
\* user cannot be looked up it returns "" and an error
ReplaceHome(path, userOk) ==
    IF path = <<>> \/ path[1] # "~" THEN path
    ELSE IF userOk THEN Home \o Tail(path)
    ELSE <<>>

\* filepath.Dir: all but the last element, "." when nothing is left
Dir(path) ==
    IF Len(path) = 0 THEN <<".">>
    ELSE IF Len(path) = 1 THEN (IF path[1] = "/" THEN path ELSE <<".">>)
    ELSE SubSeq(path, 1, Len(path) - 1)

\* filepath.Abs: a relative path is joined to the working directory
Abs(path) ==
    IF path # <<>> /\ path[1] = "/" THEN path
    ELSE IF path = <<".">> THEN Cwd
    ELSE Cwd \o path

\* os.Stat(dirname) finds a directory
DirExists(dirname) == Abs(dirname) \in dirs

\* os.Mkdir in its place: dirname alone
MkdirOnly(ds, dirname) == ds \cup {Abs(dirname)}

\* the directories os.MkdirAll(dirname) leaves in place: dirname and
\* every ancestor of it
MkdirAll(ds, dirname) ==
    ds \cup {SubSeq(Abs(dirname), 1, n) : n \in 1..Len(Abs(dirname))}

\* the timestamp GetModTime hands back beside an error
NoTime == 0

\* util.GetModTime: os.Stat(path), the file's ModTime
GetModTime(fs, path) ==
    IF Abs(path) \in DOMAIN fs THEN fs[Abs(path)].mtime ELSE NoTime

\* error values
Nil == "nil"
ErrScratch == "Cannot save scratch buffer"
ErrParent == "Parent dirs don't exist, enable 'mkparents' for auto creation"
ErrMkdir == "mkdirall error"
ErrEncoding == "htmlindex: invalid encoding name"
ErrOpen == "open error"
ErrWrite == "write error"
ErrClose == "close error"
ErrSerialize == "serialize error"
ErrWait == "helper error"
Pending == "pending"

--------------------------------------------------------------------------
(* The encoded writer *)

\* htmlindex.Get: the encodings it knows
KnownEncodings == {"utf-8"}

\* what enc.NewEncoder() makes of a chunk of ASCII bytes
Encode(enc, chunk) == chunk

RECURSIVE Written(_, _)
\* the file content a sequence of Write calls through the encoder leaves
Written(enc, writes) ==
    IF writes = <<>> THEN <<>>
    ELSE Cat(Encode(enc, Head(writes)), Written(enc, Tail(writes)))

Event(ev, ok) == [ev |-> ev, ok |-> ok]

\* os.OpenFile(name, O_WRONLY|O_CREATE|O_TRUNC, 0644) succeeds
CanOpen(ds, name, openFails) ==
    /\ ~openFails
    /\ name # <<>>
    /\ Abs(Dir(name)) \in ds

\* overwriteFile with a close error that replaces the callback's error
overwriteFileCloseWins(fs, ds, t, name, enc, cb, openFails, closeFails) ==
    IF ~CanOpen(ds, name, openFails)
    THEN [err |-> ErrOpen, files |-> fs, now |-> t,
          events |-> <<Event("open", FALSE)>>]
    ELSE [err |-> IF closeFails THEN ErrClose ELSE cb.e,
          files |-> [p \in DOMAIN fs \cup {Abs(name)} |->
                        IF p = Abs(name)
                        THEN [data |-> Written(enc, cb.writes), mtime |-> t + 1]
                        ELSE fs[p]],
          now |-> t + 1,
          events |-> <<Event("open", TRUE), Event("fn", cb.e = Nil),
                       Event("close", ~closeFails)>>]

\* overwriteFile that closes the file only after a callback that succeeded
overwriteFileLeaks(fs, ds, t, name, enc, cb, openFails, closeFails) ==
    IF ~CanOpen(ds, name, openFails)
    THEN [err |-> ErrOpen, files |-> fs, now |-> t,
          events |-> <<Event("open", FALSE)>>]
    ELSE [err |-> IF cb.e # Nil THEN cb.e
                  ELSE IF closeFails THEN ErrClose ELSE Nil,
          files |-> [p \in DOMAIN fs \cup {Abs(name)} |->
                        IF p = Abs(name)
                        THEN [data |-> Written(enc, cb.writes), mtime |-> t + 1]
                        ELSE fs[p]],
          now |-> t + 1,
          events |-> <<Event("open", TRUE), Event("fn", cb.e = Nil)>>
                     \o (IF cb.e # Nil THEN <<>>
                         ELSE <<Event("close", ~closeFails)>>)]

\* overwriteFile(name, enc, fn): cb is what fn does when it is called
\* (its error, the chunks it wrote before it); the result is the error
\* returned, the files and the clock afterwards, and the calls made
overwriteFile(fs, ds, t, name, enc, cb, openFails, closeFails) ==
    IF ~CanOpen(ds, name, openFails)
    THEN [err |-> ErrOpen, files |-> fs, now |-> t,
          events |-> <<Event("open", FALSE)>>]
    ELSE LET data == Written(enc, cb.writes)
             fs1 == [p \in DOMAIN fs \cup {Abs(name)} |->
                        IF p = Abs(name)
                        THEN [data |-> data, mtime |-> t + 1]
                        ELSE fs[p]]
             closeErr == IF closeFails THEN ErrClose ELSE Nil
         IN  [err |-> IF cb.e # Nil THEN cb.e ELSE closeErr,
              files |-> fs1, now |-> t + 1,
              events |-> <<Event("open", TRUE), Event("fn", cb.e = Nil),
                           Event("close", ~closeFails)>>]

--------------------------------------------------------------------------
(* Buffer helpers the save path calls *)

\* bytes.TrimRightFunc(data, unicode.IsSpace)
RECURSIVE TrimRightSpace(_)
TrimRightSpace(s) ==
    IF s = <<>> THEN s
    ELSE IF IsSpace(s[Len(s)][1]) THEN TrimRightSpace(SubSeq(s, 1, Len(s) - 1))
    ELSE s

\* b.Remove(Loc{from, i}, Loc{to, i}) on the bytes of line i
RemoveRange(s, from, to) == Cat(Take(s, from), Drop(s, to))

\* the loop with line 0 left as it is
TrimLinesSkipFirst(ls) ==
    [i \in 1..Len(ls) |->
        IF i = 1 THEN ls[i]
        ELSE RemoveRange(ls[i], BLen(TrimRightSpace(ls[i])), BLen(ls[i]))]

\* the loop taking one whitespace rune off each line that ends in one
TrimLinesOneRune(ls) ==
    [i \in 1..Len(ls) |->
        LET linelen == BLen(ls[i])
        IN  IF TrimRightSpace(ls[i]) = ls[i] THEN ls[i]
            ELSE RemoveRange(ls[i], linelen - 1, linelen)]

\* the loop of SaveAs over b.lines when rmtrailingws is set
TrimLines(ls) ==
    [i \in 1..Len(ls) |->
        LET leftover == BLen(TrimRightSpace(ls[i]))
            linelen == BLen(ls[i])
        IN  RemoveRange(ls[i], leftover, linelen)]

\* b.RuneAt(Loc{end.X - 1, end.Y}) for end = b.End(): the last character
\* of the text, which is the newline before the last line when that line
\* is empty (and a newline for a text without characters)
LastRune(ls) ==
    IF ls = <<>> \/ ls[Len(ls)] = <<>> THEN "LF"
    ELSE ls[Len(ls)][Len(ls[Len(ls)])][1]

\* b.Insert(b.End(), "\n"): a new, empty last line
InsertNewlineAtEnd(ls) == Append(ls, <<>>)

\* the eofnewline step without its test
EofNewlineUnchecked(ls) == InsertNewlineAtEnd(ls)

\* the eofnewline step of SaveAs
EofNewline(ls) ==
    IF LastRune(ls) # "LF" THEN InsertNewlineAtEnd(ls) ELSE ls

\* calcHash(b, &b.origHash): the digest of the lines
calcHash(ls) == <<"md5", ls>>

\* the line terminator SaveAs picks
Eol(endings) ==
    IF endings = "dos" THEN <<<<"CR", 1>>, <<"LF", 1>>>> ELSE <<<<"LF", 1>>>>

RECURSIVE writeLoop(_, _, _, _, _)
\* the loop over b.lines[1:] in the callback; line i's terminator is
\* Write call 2i-2 and its bytes are Write call 2i-1; failAt is the Write
\* call that fails (0: none); st is [e, fileSize, writes] so far
writeLoop(ls, i, eol, failAt, st) ==
    IF i > Len(ls) THEN st
    ELSE IF failAt = 2 * i - 2 THEN [st EXCEPT !.e = ErrWrite]
    ELSE IF failAt = 2 * i - 1
         THEN [st EXCEPT !.e = ErrWrite, !.writes = Append(@, eol)]
    ELSE writeLoop(ls, i + 1, eol, failAt,
                   [e |-> Nil,
                    fileSize |-> st.fileSize + BLen(eol) + BLen(ls[i]),
                    writes |-> st.writes \o <<eol, ls[i]>>])

\* a callback that ends every line, the last one too, with the terminator
saveCallbackTrailing(ls, endings, failAt) ==
    IF Len(ls) = 0 THEN [e |-> Nil, fileSize |-> 0, writes |-> <<>>]
    ELSE LET st == writeLoop(ls, 2, Eol(endings), failAt,
                             [e |-> Nil, fileSize |-> BLen(ls[1]),
                              writes |-> <<ls[1]>>])
         IN  [st EXCEPT !.writes = Append(@, Eol(endings))]

\* the callback SaveAs hands to overwriteFile
saveCallback(ls, endings, failAt) ==
    IF Len(ls) = 0 THEN [e |-> Nil, fileSize |-> 0, writes |-> <<>>]
    ELSE IF failAt = 1 THEN [e |-> ErrWrite, fileSize |-> 0, writes |-> <<>>]
    ELSE writeLoop(ls, 2, Eol(endings), failAt,
                   [e |-> Nil, fileSize |-> BLen(ls[1]), writes |-> <<ls[1]>>])

\* the branch with the threshold itself counted as too large
dirtyTrackingAtThreshold(fastdirty, hash, ls, fileSize) ==
    IF ~fastdirty
    THEN IF fileSize >= LargeFileThreshold
         THEN [fastdirty |-> TRUE, origHash |-> hash]
         ELSE [fastdirty |-> FALSE, origHash |-> calcHash(ls)]
    ELSE [fastdirty |-> fastdirty, origHash |-> hash]

\* the branch that decides fastdirty anew at every save
dirtyTrackingEverySave(fastdirty, hash, ls, fileSize) ==
    IF fileSize > LargeFileThreshold
    THEN [fastdirty |-> TRUE, origHash |-> hash]
    ELSE [fastdirty |-> FALSE, origHash |-> calcHash(ls)]

\* the fastdirty branch after a successful write: [fastdirty, origHash]
dirtyTracking(fastdirty, hash, ls, fileSize) ==
    IF ~fastdirty
    THEN IF fileSize > LargeFileThreshold
         THEN [fastdirty |-> TRUE, origHash |-> hash]
         ELSE [fastdirty |-> FALSE, origHash |-> calcHash(ls)]
    ELSE [fastdirty |-> fastdirty, origHash |-> hash]

--------------------------------------------------------------------------
(* The save orchestrator *)

\* the buffer and the filesystem as an operation finds them
Snapshot ==
    [lines |-> lines, Path |-> Path, AbsPath |-> AbsPath,
     isModified |-> isModified, ModTime |-> ModTime, origHash |-> origHash,
     fastdirty |-> Settings.fastdirty, dirs |-> dirs, files |-> files,
     listeners |-> listeners, forwarders |-> forwarders]

\* an operation that returned err and touched nothing
Untouched(err) ==
    [err |-> err, localErr |-> err, lines |-> lines, dirs |-> dirs,
     files |-> files, now |-> now, Path |-> Path, AbsPath |-> AbsPath,
     isModified |-> isModified, ModTime |-> ModTime, origHash |-> origHash,
     fastdirty |-> Settings.fastdirty, events |-> <<>>, writes |-> <<>>,
     fileSize |-> 0, target |-> <<>>]

\* the deferred function of SaveAs, run as SaveAs returns r.err: it
\* re-reads the timestamp and assigns Serialize's error to the local err,
\* which the caller never sees (the result of SaveAs is not named)
saveDeferred(r, filename, serializeFails) ==
    [r EXCEPT
        !.ModTime = GetModTime(r.files, filename),
        !.localErr = IF serializeFails THEN ErrSerialize ELSE Nil,
        !.events = @ \o <<Event("modtime", Abs(filename) \in DOMAIN r.files),
                          Event("serialize", ~serializeFails)>>]

\* the bookkeeping done whatever overwriteFile returned
saveReturnUnchecked(r1, filename) ==
    LET dt == dirtyTracking(r1.fastdirty, r1.origHash, r1.lines, r1.fileSize)
    IN  [r1 EXCEPT !.fastdirty = dt.fastdirty, !.origHash = dt.origHash,
                   !.Path = filename, !.AbsPath = Abs(filename),
                   !.isModified = FALSE]

\* SaveAs after overwriteFile: the error check, and after a write that
\* went through the fastdirty branch, the path fields and isModified
saveReturn(r1, filename) ==
    IF r1.err # Nil THEN r1
    ELSE LET dt == dirtyTracking(r1.fastdirty, r1.origHash, r1.lines,
                                 r1.fileSize)
         IN  [r1 EXCEPT !.fastdirty = dt.fastdirty, !.origHash = dt.origHash,
                        !.Path = filename, !.AbsPath = Abs(filename),
                        !.isModified = FALSE]

\* SaveAs from overwriteFile to its last return, the encoding found
saveEncoded(r, filename, absFilename, flt) ==
    LET cb == saveCallback(r.lines, Endings, flt.write)
        ow == overwriteFile(r.files, r.dirs, r.now, absFilename,
                            Settings.encoding, cb, flt.open, flt.close)
        opened == ow.events[1].ok
        r1 == [r EXCEPT
                 !.err = ow.err, !.files = ow.files, !.now = ow.now,
                 !.events = @ \o <<Event("lookup", TRUE)>> \o ow.events,
                 !.writes = IF opened THEN cb.writes ELSE <<>>,
                 !.fileSize = IF opened THEN cb.fileSize ELSE 0,
                 !.target = IF opened THEN Abs(absFilename) ELSE <<>>]
    IN  saveReturn(r1, filename)

\* the destination opened (and emptied) before the encoding is looked up
saveWriteOpenFirst(r, filename, absFilename, flt) ==
    IF Settings.encoding \in KnownEncodings
    THEN saveEncoded(r, filename, absFilename, flt)
    ELSE LET ow == overwriteFile(r.files, r.dirs, r.now, absFilename, "utf-8",
                                 saveCallback(<<>>, Endings, 0),
                                 flt.open, flt.close)
         IN  [r EXCEPT !.err = ErrEncoding, !.files = ow.files,
                       !.now = ow.now,
                       !.events = @ \o ow.events \o <<Event("lookup", FALSE)>>]

\* SaveAs from the encoding lookup to its last return; r holds the state
\* once the parent directory has been dealt with
saveWrite(r, filename, absFilename, flt) ==
    IF Settings.encoding \notin KnownEncodings
    THEN [r EXCEPT !.err = ErrEncoding,
                   !.events = @ \o <<Event("lookup", FALSE)>>]
    ELSE saveEncoded(r, filename, absFilename, flt)

\* SaveAs after the scratch check
saveBody(filename, flt) ==
    LET ls1 == IF Settings.rmtrailingws THEN TrimLines(lines) ELSE lines
        ls == IF Settings.eofnewline THEN EofNewline(ls1) ELSE ls1
        removes == [i \in 1..Len(lines) |-> Event("remove", TRUE)]
        ev0 == (IF Settings.rmtrailingws
                THEN removes \o <<Event("relocate", TRUE)>> ELSE <<>>)
               \o (IF ls # ls1 THEN <<Event("insert", TRUE)>> ELSE <<>>)
        r0 == [Untouched(Nil) EXCEPT !.lines = ls, !.events = ev0]
        absFilename == ReplaceHome(filename, flt.user)
        dirname == Dir(absFilename)
        missing == dirname # <<".">> /\ ~DirExists(dirname)
        r == IF ~missing THEN saveWrite(r0, filename, absFilename, flt)
             ELSE IF ~Settings.mkparents
                  THEN [r0 EXCEPT !.err = ErrParent]
             ELSE IF flt.mkdir
                  THEN [r0 EXCEPT !.err = ErrMkdir,
                                  !.events = @ \o <<Event("mkdirall", FALSE)>>]
             ELSE saveWrite([r0 EXCEPT
                               !.dirs = MkdirAll(dirs, dirname),
                               !.events = @ \o <<Event("mkdirall", TRUE)>>],
                            filename, absFilename, flt)
    IN  saveDeferred(r, filename, flt.serialize)

\* SaveAs without its scratch check
saveAsUnchecked(filename, flt) == saveBody(filename, flt)

\* func (b *Buffer) SaveAs(filename string) error
saveAs(filename, flt) ==
    IF Scratch THEN Untouched(ErrScratch) ELSE saveBody(filename, flt)

\* what the operation op(filename) that returned r leaves in the record
Done(op, filename, r) ==
    [op |-> op, filename |-> filename, err |-> r.err,
     localErr |-> r.localErr, events |-> r.events, writes |-> r.writes,
     fileSize |-> r.fileSize, target |-> r.target, pre |-> Snapshot]

\* a call of SaveAs(filename), by the name op the caller used
CallSaveAs(op, filename, flt) ==
    /\ pc = "idle"
    /\ now < MaxTime
    /\ \E r \in {saveAs(filename, flt)} :
           /\ lines' = r.lines
           /\ Path' = r.Path
           /\ AbsPath' = r.AbsPath
           /\ isModified' = r.isModified
           /\ ModTime' = r.ModTime
           /\ origHash' = r.origHash
           /\ Settings' = [Settings EXCEPT !.fastdirty = r.fastdirty]
           /\ dirs' = r.dirs
           /\ files' = r.files
           /\ now' = r.now
           /\ last' = Done(op, filename, r)
    /\ UNCHANGED <<Endings, Scratch, pc, sudoVars, plugins>>

SaveAs(filename, flt) == CallSaveAs("SaveAs", filename, flt)

\* func (b *Buffer) Save() error
Save(flt) == CallSaveAs("Save", Path, flt)

--------------------------------------------------------------------------
(* The privileged save path *)

\* b.Bytes(): the lines joined by the buffer's line terminator
Bytes(ls, endings) == Written("raw", saveCallback(ls, endings, 0).writes)

NoCmd == [filename |-> <<>>, Process |-> "none", input |-> <<>>]

\* SaveAsWithSudo up to cmd.Start(): the scratch check, the path fields,
\* exec.Command, signal.Notify and the forwarding goroutine
CallSaveAsWithSudo(op, filename) ==
    /\ pc = "idle"
    /\ IF Scratch
       THEN /\ last' = Done(op, filename, Untouched(ErrScratch))
            /\ UNCHANGED <<Path, AbsPath, pc, cmd, listeners, forwarders,
                           chans>>
       ELSE /\ listeners < MaxSudo
            /\ now < MaxTime
            /\ Path' = filename
            /\ AbsPath' = Abs(filename)
            /\ cmd' = [filename |-> filename, Process |-> "nil",
                       input |-> Bytes(lines, Endings)]
            /\ listeners' = listeners + 1
            /\ forwarders' = forwarders + 1
            /\ chans' = Append(chans, FALSE)
            /\ pc' = "start"
            /\ last' = [Done(op, filename, Untouched(Pending)) EXCEPT
                          !.events = <<Event("notify", TRUE),
                                       Event("go", TRUE)>>]
    /\ UNCHANGED <<lines, isModified, ModTime, origHash, Settings, Endings,
                   Scratch, dirs, files, now, procs, plugins>>

SaveAsWithSudo(filename) == CallSaveAsWithSudo("SaveAsWithSudo", filename)

\* func (b *Buffer) SaveWithSudo() error
SaveWithSudo == CallSaveAsWithSudo("SaveWithSudo", Path)

\* cmd.Start(): the helper is spawned, or it is not and the error is dropped
SudoStart(spawned) ==
    /\ pc = "start"
    /\ cmd' = [cmd EXCEPT !.Process = IF spawned THEN "running" ELSE "nil"]
    /\ pc' = "wait"
    /\ last' = [last EXCEPT !.events = @ \o <<Event("start", spawned)>>]
    /\ UNCHANGED <<bufVars, fsVars, listeners, forwarders, chans, procs,
                   plugins>>

\* a Wait that reports the helper's exit though it was never spawned
waitIgnoringStart(exitZero) ==
    IF exitZero /\ CanOpen(dirs, cmd.filename, FALSE) THEN Nil ELSE ErrWait

\* err := cmd.Wait(): nil only for a helper that was spawned, was not
\* killed, could open its destination and exited zero
wait(exitZero) ==
    IF cmd.Process = "running" /\ exitZero
          /\ CanOpen(dirs, cmd.filename, FALSE)
    THEN Nil ELSE ErrWait

\* cmd.Wait() and the rest of SaveAsWithSudo: the helper (tee, which
\* opens the file name as given) exits zero having written its input, or
\* fails; only after a zero exit are isModified and ModTime touched
SudoWait(exitZero, serializeFails) ==
    /\ pc = "wait"
    /\ LET ok == wait(exitZero) = Nil
           fs1 == [p \in DOMAIN files \cup {Abs(cmd.filename)} |->
                      IF p = Abs(cmd.filename)
                      THEN [data |-> cmd.input, mtime |-> now + 1]
                      ELSE files[p]]
       IN  IF ok
           THEN /\ files' = fs1
                /\ now' = now + 1
                /\ isModified' = FALSE
                /\ ModTime' = GetModTime(fs1, cmd.filename)
                /\ last' = [last EXCEPT
                      !.err = IF serializeFails THEN ErrSerialize ELSE Nil,
                      !.localErr = IF serializeFails THEN ErrSerialize ELSE Nil,
                      !.target = Abs(cmd.filename),
                      !.events = @ \o <<Event("wait", TRUE),
                                        Event("modtime", TRUE),
                                        Event("serialize", ~serializeFails)>>]
           ELSE /\ last' = [last EXCEPT
                      !.err = ErrWait, !.localErr = ErrWait,
                      !.events = @ \o <<Event("wait", FALSE)>>]
                /\ UNCHANGED <<files, now, isModified, ModTime>>
    /\ pc' = "idle"
    /\ cmd' = NoCmd
    /\ procs' = Append(procs, IF cmd.Process = "nil" THEN "nil" ELSE "exited")
    /\ UNCHANGED <<lines, Path, AbsPath, origHash, Settings, Endings, Scratch,
                   dirs, listeners, forwarders, chans, plugins>>

\* os.Interrupt reaches the host: every channel registered with
\* signal.Notify gets the signal unless one already waits in it (the
\* channels hold one); with no channel registered the signal's default
\* action ends the host
Interrupt ==
    /\ pc \in {"idle", "start", "wait"}
    /\ IF listeners = 0
       THEN pc' = "interrupted" /\ UNCHANGED chans
       ELSE chans' = [i \in DOMAIN chans |-> TRUE] /\ UNCHANGED pc
    /\ UNCHANGED <<bufVars, fsVars, cmd, listeners, forwarders, procs,
                   plugins, last>>

\* cmd.Process as the goroutine of the i-th privileged save finds it
Process(i) ==
    IF pc \in {"start", "wait"} /\ i = Len(chans) THEN cmd.Process
    ELSE procs[i]

\* the goroutine of the i-th privileged save takes a signal from its
\* channel and calls cmd.Process.Kill(): on a nil Process the call
\* panics and the host goes down with it; a helper still alive is
\* killed; one that has exited (reaped or not) is out of reach
Forward(i, alive) ==
    /\ pc \in {"idle", "start", "wait"}
    /\ i \in DOMAIN chans
    /\ chans[i]
    /\ chans' = [chans EXCEPT ![i] = FALSE]
    /\ IF Process(i) = "nil"
       THEN pc' = "crashed" /\ UNCHANGED cmd
       ELSE IF Process(i) = "running" /\ alive
            THEN cmd' = [cmd EXCEPT !.Process = "killed"] /\ UNCHANGED pc
            ELSE UNCHANGED <<pc, cmd>>
    /\ UNCHANGED <<bufVars, fsVars, listeners, forwarders, procs, plugins,
                   last>>

--------------------------------------------------------------------------
(* The editor around the save path *)

NoSnapshot ==
    [lines |-> <<>>, Path |-> <<>>, AbsPath |-> <<>>, isModified |-> FALSE,
     ModTime |-> NoTime, origHash |-> <<>>, fastdirty |-> FALSE,
     dirs |-> {}, files |-> <<>>, listeners |-> 0, forwarders |-> 0]

\* the record of something that is not a save
NotASave(op) ==
    [op |-> op, filename |-> <<>>, err |-> Nil, localErr |-> Nil,
     events |-> <<>>, writes |-> <<>>, fileSize |-> 0, target |-> <<>>,
     pre |-> NoSnapshot]

\* the user edits the text between two saves
Edit(ls) ==
    /\ pc = "idle"
    /\ ls # lines
    /\ lines' = ls
    /\ isModified' = TRUE
    /\ last' = NotASave("Edit")
    /\ UNCHANGED <<Path, AbsPath, ModTime, origHash, Settings, Endings,
                   Scratch, fsVars, pc, sudoVars, plugins>>

--------------------------------------------------------------------------
(* The plugin registry of package lua.  An entry of a directory listing
   is [name, isDir, readable, lua, loads]: its name (its place in the
   sorted listing), whether it is a directory, whether ioutil.ReadDir on
   it succeeds, the .lua files it holds, whether they load. *)

\* a *Plugin is the nil pointer or points to one Plugin value
NilPlugin == <<>>

\* a map[string]lua.LValue that was never made
NilMap == [made |-> FALSE, entries |-> <<>>]

ErrNoSuchFunction == "No such function exists"
ErrReadDir == "ioutil.ReadDir failed"
ErrLoad == "Plugin.Load failed"
ErrLua == "L.CallByParam failed"
LuaNil == "LNil"

\* func NewPluginFromDir(name string, dir string) (*Plugin, error)
NewPluginFromDir(f) ==
    IF ~f.readable THEN [p |-> NilPlugin, err |-> ErrReadDir]
    ELSE [p |-> <<[Name |-> f.name, files |-> f.lua, callbacks |-> NilMap]>>,
          err |-> Nil]

\* func (p *Plugin) Load() error: every file of p is read and run
Load(p, loads) == IF p.files # <<>> /\ ~loads THEN ErrLoad ELSE Nil

RECURSIVE loadLoop(_, _, _)
\* the loop of LoadAllPlugins from entry i on, reg being the registry so
\* far: [plugins, err]
loadLoop(listing, i, reg) ==
    IF i > Len(listing) THEN [plugins |-> reg, err |-> Nil]
    ELSE IF ~listing[i].isDir THEN loadLoop(listing, i + 1, reg)
    ELSE LET n == NewPluginFromDir(listing[i])
         IN  IF n.err # Nil THEN [plugins |-> reg, err |-> n.err]
             ELSE IF Load(n.p[1], listing[i].loads) # Nil
                  THEN [plugins |-> reg, err |-> ErrLoad]
             ELSE loadLoop(listing, i + 1, Append(reg, n.p))

\* the record of a call into the plugin package
PluginCall(op, err) ==
    [op |-> op, err |-> err, listing |-> <<>>, plugin |-> 0, name |-> "",
     fn |-> "", luaCalls |-> <<>>, pre |-> plugins]

\* func LoadAllPlugins() error, the plugins directory holding listing
LoadAllPlugins(dirOk, listing) ==
    /\ pc = "idle"
    /\ \E r \in {IF ~dirOk THEN [plugins |-> plugins, err |-> ErrReadDir]
                  ELSE loadLoop(listing, 1,
                                [i \in 1..Len(listing) |-> NilPlugin])} :
           /\ plugins' = r.plugins
           /\ last' = [PluginCall("LoadAllPlugins", r.err) EXCEPT
                         !.listing = IF dirOk THEN listing ELSE <<>>,
                         !.pre = <<>>]
    /\ UNCHANGED <<bufVars, fsVars, pc, sudoVars>>

\* the functions the Lua table of a loaded plugin holds
LuaFunctions == {"onSave"}

\* L.GetField(L.GetGlobal(p.Name), fn)
GetField(p, fn) ==
    IF p.files # <<>> /\ fn \in LuaFunctions THEN fn ELSE LuaNil

\* func (p *Plugin) RegisterCallback(name string, fn string) error on the
\* plugin of registry entry i: the assignment to an entry of a map that
\* was never made panics
RegisterCallback(i, name, fn) ==
    /\ pc = "idle"
    /\ i \in DOMAIN plugins
    /\ plugins[i] # NilPlugin
    /\ LET p == plugins[i][1]
           luafn == GetField(p, fn)
           call == [PluginCall("RegisterCallback", Nil) EXCEPT
                      !.plugin = i, !.name = name, !.fn = fn]
       IN  IF luafn = LuaNil
           THEN /\ last' = [call EXCEPT !.err = ErrNoSuchFunction]
                /\ UNCHANGED <<pc, plugins>>
           ELSE IF ~p.callbacks.made
                THEN /\ pc' = "crashed"
                     /\ last' = [call EXCEPT !.err = Pending]
                     /\ UNCHANGED plugins
                ELSE /\ plugins' =
                          [plugins EXCEPT ![i] =
                             <<[p EXCEPT !.callbacks.entries =
                                           (name :> luafn) @@ @]>>]
                     /\ last' = call
                     /\ UNCHANGED pc
    /\ UNCHANGED <<bufVars, fsVars, sudoVars>>

\* func (p *Plugin) DoCallback(name string, args ...lua.LValue) on the
\* plugin of registry entry i
DoCallback(i, name, callFails) ==
    /\ pc = "idle"
    /\ i \in DOMAIN plugins
    /\ plugins[i] # NilPlugin
    /\ LET cbs == plugins[i][1].callbacks
           ok == cbs.made /\ name \in DOMAIN cbs.entries
           call == [PluginCall("DoCallback", Nil) EXCEPT
                      !.plugin = i, !.name = name]
       IN  last' = IF ~ok THEN [call EXCEPT !.err = ErrNoSuchFunction]
                   ELSE [call EXCEPT
                           !.luaCalls = <<cbs.entries[name]>>,
                           !.err = IF callFails THEN ErrLua ELSE Nil]
    /\ UNCHANGED <<bufVars, fsVars, pc, sudoVars, plugins>>

--------------------------------------------------------------------------
(* Inputs and initial states *)

\* short lines: empty, text, text with trailing blanks, blanks only
ShortLines ==
    {<<>>, Rep("a", 1), Cat(Rep("a", 1), Rep("SP", 1)), Rep("SP", 1)}

\* lines around the large-file threshold
LongLines ==
    {Rep("a", n) : n \in (LargeFileThreshold - Slack)..(LargeFileThreshold + 1)}

\* the buffers of at most MaxLines lines drawn from lineSet
Contents(lineSet) == UNION {[1..n -> lineSet] : n \in 0..MaxLines}

\* the file names a save is asked for: in the working directory, under
\* the home shorthand, and two directories down
Filenames == {<<"f">>, <<"~", "f">>, <<"d", "e", "f">>}

BaseDirs == {<<"/">>, Cwd, Home}

\* the directory trees a run starts from: with and without d and d/e
DirTrees ==
    {BaseDirs, BaseDirs \cup {Cwd \o <<"d">>},
     BaseDirs \cup {Cwd \o <<"d">>, Cwd \o <<"d", "e">>}}

\* what may fail in one call: the user lookup of ReplaceHome, MkdirAll,
\* the open, one of the first three Write calls, the close, Serialize
NoFault ==
    [user |-> TRUE, mkdir |-> FALSE, open |-> FALSE, write |-> 0,
     close |-> FALSE, serialize |-> FALSE]

AllFaults ==
    [user : BOOLEAN, mkdir : BOOLEAN, open : BOOLEAN,
     write : 0..3, close : BOOLEAN, serialize : BOOLEAN]

\* how many steps of a call the fault record flt makes fail
FaultCount(flt) ==
    (IF flt.user THEN 0 ELSE 1) + (IF flt.mkdir THEN 1 ELSE 0)
    + (IF flt.open THEN 1 ELSE 0) + (IF flt.write > 0 THEN 1 ELSE 0)
    + (IF flt.close THEN 1 ELSE 0) + (IF flt.serialize THEN 1 ELSE 0)

\* at most two steps of one call fail
Faults == {flt \in AllFaults : FaultCount(flt) <= 2}

\* the faults of the writer alone
WriterFaults == {flt \in Faults : flt.user /\ ~flt.mkdir /\ ~flt.serialize}

AllSettings ==
    [rmtrailingws : BOOLEAN, eofnewline : BOOLEAN, mkparents : BOOLEAN,
     encoding : {"utf-8", "no-such-encoding"}, fastdirty : BOOLEAN]

\* the hash field of a buffer opened with fastdirty on
ZeroHash == <<"zero", <<>>>>

\* the text of a buffer opened on a file that does not exist: one empty line
NewText == <<<<>>>>

\* a buffer opened on the file f of the working directory and edited
\* since: f held the text `opened` (written at time start) or did not
\* exist, the hash is the one taken at opening, the buffer now holds
\* `lines`; start is the reading of the filesystem clock
InitWith(contents, openedTexts, settings, scratches, endings, trees, start) ==
    /\ lines \in contents
    /\ Settings \in settings
    /\ Scratch \in scratches
    /\ Endings \in endings
    /\ dirs \in trees
    /\ Path = <<"f">>
    /\ AbsPath = Abs(Path)
    /\ now = start
    /\ \E opened \in openedTexts \cup {NewText} :
          /\ files \in {[p \in {Abs(Path)} |->
                           [data |-> Bytes(opened, Endings), mtime |-> now]]}
                       \cup (IF opened = NewText THEN {<<>>} ELSE {})
          /\ isModified = (lines # opened)
          /\ origHash = IF Settings.fastdirty THEN ZeroHash
                        ELSE calcHash(opened)
    /\ ModTime = GetModTime(files, Path)
    /\ pc = "idle"
    /\ cmd = NoCmd
    /\ listeners = 0
    /\ forwarders = 0
    /\ chans = <<>>
    /\ procs = <<>>
    /\ plugins = <<>>
    /\ last = NotASave("none")

--------------------------------------------------------------------------
(* Spec: SaveAs under every fault and every path, on a few texts *)

FewContents == {<<>>, <<Rep("a", 1)>>, <<Rep("a", 1), Rep("SP", 1)>>}

FewSettings == {st \in AllSettings : ~st.rmtrailingws /\ ~st.eofnewline}

PathSettings == {st \in FewSettings : ~st.fastdirty}

Init ==
    InitWith(FewContents, {<<Rep("a", 1)>>}, PathSettings, {FALSE}, {"unix"},
             DirTrees, 2)

Next ==
    \/ \E ls \in FewContents : Edit(ls)
    \/ \E filename \in Filenames, flt \in Faults : SaveAs(filename, flt)

Spec == Init /\ [][Next]_vars

--------------------------------------------------------------------------
(* SpecAll: the four save methods in sequence, scratch buffers included;
   the helper is always spawned here, SpecSudo has the failed starts *)

SmallAndLarge ==
    {<<>>, <<Rep("a", 1), Rep("SP", 1)>>,
     <<Rep("a", LargeFileThreshold + 1)>>}

AllOpsSettings ==
    {st \in FewSettings : st.encoding = "utf-8" /\ st.mkparents}

AllOpsFaults == {flt \in WriterFaults : flt.write = 0 /\ ~flt.close}

InitAll ==
    InitWith(SmallAndLarge, {<<Rep("a", 1)>>}, AllOpsSettings, BOOLEAN,
             {"unix"}, {BaseDirs}, 1)

\* the file names of SpecAll: one tee can write, one it cannot
AllOpsFilenames == {<<"f">>, <<"~", "f">>}

NextAll ==
    \/ \E ls \in SmallAndLarge : Edit(ls)
    \/ \E flt \in AllOpsFaults : Save(flt)
    \/ \E filename \in AllOpsFilenames, flt \in AllOpsFaults :
          SaveAs(filename, flt)
    \/ SaveWithSudo
    \/ \E filename \in AllOpsFilenames : SaveAsWithSudo(filename)
    \/ SudoStart(TRUE)
    \/ \E exitZero \in BOOLEAN, serializeFails \in BOOLEAN :
          SudoWait(exitZero, serializeFails)

SpecAll == InitAll /\ [][NextAll]_vars

--------------------------------------------------------------------------
(* SpecSudo: privileged saves of a modified buffer, with interrupts *)

SudoContents == {<<Rep("a", 1), Rep("SP", 1)>>}

InitSudo ==
    InitWith(SudoContents, {<<Rep("a", 1)>>}, AllOpsSettings, {FALSE},
             {"unix"}, {BaseDirs}, 1)

NextSudo ==
    \/ \E ls \in SmallAndLarge : Edit(ls)
    \/ SaveWithSudo
    \/ \E filename \in AllOpsFilenames : SaveAsWithSudo(filename)
    \/ \E spawned \in BOOLEAN : SudoStart(spawned)
    \/ \E exitZero \in BOOLEAN, serializeFails \in BOOLEAN :
          SudoWait(exitZero, serializeFails)
    \/ Interrupt
    \/ \E i \in 1..MaxSudo, alive \in BOOLEAN : Forward(i, alive)

SpecSudo == InitSudo /\ [][NextSudo]_vars

--------------------------------------------------------------------------
(* SpecSize: saves of texts of every shape and size around the threshold *)

\* buffers of short lines with at most one long line among them
SizedContents ==
    {ls \in Contents({<<>>, Rep("a", 1)} \cup LongLines) :
        Cardinality({i \in 1..Len(ls) : ls[i] \in LongLines}) <= 1}

SizeSettings ==
    {st \in FewSettings : st.encoding = "utf-8" /\ st.mkparents}

InitSize ==
    InitWith(SizedContents, {<<Rep("a", 1)>>}, SizeSettings, {FALSE},
             {"unix", "dos"}, {BaseDirs}, 1)

NextSize ==
    \/ \E ls \in SmallAndLarge : Edit(ls)
    \/ Save(NoFault)
    \/ \E flt \in AllOpsFaults : SaveAs(<<"f">>, flt)

SpecSize == InitSize /\ [][NextSize]_vars

--------------------------------------------------------------------------
(* SpecNorm: saves with the two normalisations switched on and off *)

\* lines with and without trailing whitespace, of one and of two runes
NormLines ==
    {<<>>, Rep("a", 1), Cat(Rep("a", 1), Rep("SP", 1)),
     Cat(Rep("SP", 1), Rep("TAB", 1))}

NormSettings ==
    {st \in AllSettings : st.encoding = "utf-8" /\ st.mkparents
                             /\ ~st.fastdirty}

\* the texts typed between two saves
NormEdits == {<<Rep("a", 1)>>, <<Cat(Rep("a", 1), Rep("SP", 1)), <<>>>>}

InitNorm ==
    InitWith(Contents(NormLines), {<<Rep("a", 1)>>}, NormSettings, {FALSE},
             {"unix", "dos"}, {BaseDirs}, 1)

NextNorm ==
    \/ \E ls \in NormEdits : Edit(ls)
    \/ \E flt \in AllOpsFaults : Save(flt)

SpecNorm == InitNorm /\ [][NextNorm]_vars

--------------------------------------------------------------------------
(* SpecFrame: one failing step at a time, under every setting *)

\* at most one step of the call fails
SingleFaults == {flt \in AllFaults : FaultCount(flt) <= 1}

\* a file in the working directory and one whose parent is missing
FrameFilenames == {<<"f">>, <<"d", "e", "f">>}

InitFrame ==
    InitWith(NormEdits, {<<Rep("a", 1)>>}, AllSettings, {FALSE}, {"unix"},
             {BaseDirs}, 2)

NextFrame ==
    \/ \E ls \in NormEdits : Edit(ls)
    \/ \E filename \in FrameFilenames, flt \in SingleFaults :
          SaveAs(filename, flt)

SpecFrame == InitFrame /\ [][NextFrame]_vars

--------------------------------------------------------------------------
(* SpecPlugins: the plugin registry loaded and its callbacks used *)

\* what the k-th entry of the plugins directory may be: a plain file, a
\* directory that cannot be read, one without .lua files, one whose
\* file loads and one whose file does not
Entries(k) ==
    {f \in [name : {k}, isDir : BOOLEAN, readable : BOOLEAN,
            lua : {<<>>, <<"init.lua">>}, loads : BOOLEAN] :
        /\ ~f.isDir => ~f.readable
        /\ ~f.readable => f.lua = <<>>
        /\ f.lua = <<>> => ~f.loads}

RECURSIVE ListingsOf(_)
\* the listings of n entries, sorted by name
ListingsOf(n) ==
    IF n = 0 THEN {<<>>}
    ELSE {Append(l, f) : l \in ListingsOf(n - 1), f \in Entries(n)}

\* the listings of at most MaxEntries entries
Listings == UNION {ListingsOf(n) : n \in 0..MaxEntries}

CallbackNames == {"onSave", "onQuit"}
FunctionNames == {"onSave", "undefined"}

InitPlugins ==
    InitWith({NewText}, {}, {st \in AllOpsSettings :
                               ~st.fastdirty},
             {FALSE}, {"unix"}, {BaseDirs}, 1)

NextPlugins ==
    \/ \E dirOk \in BOOLEAN, listing \in Listings :
          LoadAllPlugins(dirOk, listing)
    \/ \E i \in 1..(2 * MaxEntries), name \in CallbackNames,
          fn \in FunctionNames : RegisterCallback(i, name, fn)
    \/ \E i \in 1..(2 * MaxEntries), name \in CallbackNames,
          callFails \in BOOLEAN : DoCallback(i, name, callFails)

SpecPlugins == InitPlugins /\ [][NextPlugins]_vars

--------------------------------------------------------------------------
(* What the claims read from the record of the last operation *)

NormalSaves == {"Save", "SaveAs"}
SudoSaves == {"SaveWithSudo", "SaveAsWithSudo"}

\* the last operation was a normal save that has returned
Returned == last.op \in NormalSaves
\* ... and returned no error
Succeeded == Returned /\ last.err = Nil

\* the calls named ev among the calls of the last operation
Calls(ev) == {i \in DOMAIN last.events : last.events[i].ev = ev}
Called(ev) == Calls(ev) # {}
CalledOk(ev) == \E i \in Calls(ev) : last.events[i].ok
Failed(ev) == \E i \in Calls(ev) : ~last.events[i].ok

\* the buffer fields are those the operation found
BufferUntouched ==
    /\ lines = last.pre.lines
    /\ Path = last.pre.Path
    /\ AbsPath = last.pre.AbsPath
    /\ isModified = last.pre.isModified
    /\ ModTime = last.pre.ModTime
    /\ origHash = last.pre.origHash
    /\ Settings.fastdirty = last.pre.fastdirty

\* no file and no directory was created, truncated or written
FilesystemUntouched == dirs = last.pre.dirs /\ files = last.pre.files

--------------------------------------------------------------------------
(* C1: for a scratch buffer, Save, SaveAs, SaveWithSudo and SaveAsWithSudo
   return the scratch error having done nothing: no filesystem call, no
   helper, no signal listener, no forwarding goroutine, and no buffer
   field, file or directory differs from before the call. *)
ScratchSavesTouchNothing ==
    (Scratch /\ last.op \in NormalSaves \cup SudoSaves) =>
        /\ last.err = ErrScratch
        /\ last.events = <<>>
        /\ BufferUntouched
        /\ FilesystemUntouched
        /\ pc = "idle"
        /\ cmd = NoCmd
        /\ listeners = last.pre.listeners
        /\ forwarders = last.pre.forwarders

\* a modified scratch buffer whose privileged save was refused
ScratchSaveRefused ==
    /\ Scratch
    /\ isModified
    /\ last.op = "SaveAsWithSudo"
    /\ last.err = ErrScratch

--------------------------------------------------------------------------
\* the terminator the claims expect between two lines
Terminator == IF Endings = "dos" THEN Cat(Rep("CR", 1), Rep("LF", 1))
              ELSE Rep("LF", 1)

RECURSIVE Joined(_, _)
\* the lines ls joined by the byte string sep
Joined(ls, sep) ==
    IF ls = <<>> THEN <<>>
    ELSE IF Len(ls) = 1 THEN ls[1]
    ELSE Cat(Cat(ls[1], sep), Joined(Tail(ls), sep))

(* C2: a successful save of a buffer of N lines hands the writer line 0
   and then, for each later line, the terminator followed by the line
   (2N-1 Write calls, none for N = 0); the terminator is CR LF for DOS
   endings and LF otherwise, no terminator follows the last line, and
   the file holds exactly these bytes (no bytes for a zero-line buffer). *)
WriterGetsLinesJoined ==
    Succeeded =>
        LET n == Len(lines)
            w == last.writes
        IN  /\ Len(w) = IF n = 0 THEN 0 ELSE 2 * n - 1
            /\ \A i \in 1..n : w[IF i = 1 THEN 1 ELSE 2 * i - 1] = lines[i]
            /\ \A i \in 2..n : w[2 * i - 2] = Terminator
            /\ last.target \in DOMAIN files
            /\ files[last.target].data = Joined(lines, Terminator)
            /\ last.fileSize = BLen(Joined(lines, Terminator))

\* a two-line DOS buffer saved: three Write calls, the second is CR LF
DosTwoLinesSaved ==
    /\ Succeeded
    /\ Endings = "dos"
    /\ Len(lines) = 2
    /\ lines[1] # <<>>
    /\ lines[2] # <<>>
    /\ last.writes = <<lines[1], <<<<"CR", 1>>, <<"LF", 1>>>>, lines[2]>>

--------------------------------------------------------------------------
RECURSIVE SumLen(_)
\* the sum of the lengths of the lines ls
SumLen(ls) == IF ls = <<>> THEN 0 ELSE BLen(Head(ls)) + SumLen(Tail(ls))

\* the serialized size of the buffer: every line, and one terminator for
\* each line after the first
SerializedSize ==
    SumLen(lines) + (IF Len(lines) = 0 THEN 0
                     ELSE (Len(lines) - 1) * (IF Endings = "dos" THEN 2 ELSE 1))

(* C5: after a successful save of a buffer whose fastdirty setting was
   off, a serialized size of at most 50,000 bytes leaves fastdirty off and
   the hash recomputed from the lines; a size of 50,001 bytes or more
   turns fastdirty on and leaves the hash as it was. *)
ThresholdDecidesHashing ==
    (Succeeded /\ ~last.pre.fastdirty) =>
        IF SerializedSize <= 50000
        THEN ~Settings.fastdirty /\ origHash = calcHash(lines)
        ELSE Settings.fastdirty /\ origHash = last.pre.origHash

\* a save of exactly 50,000 bytes in two DOS lines replaced a stale hash
ExactlyThresholdHashed ==
    /\ Succeeded
    /\ ~last.pre.fastdirty
    /\ SerializedSize = 50000
    /\ Len(lines) = 2
    /\ Endings = "dos"
    /\ ~Settings.fastdirty
    /\ origHash # last.pre.origHash

\* a save of 50,001 bytes turned fastdirty on and kept the stale hash
OverThresholdFastDirty ==
    /\ Succeeded
    /\ ~last.pre.fastdirty
    /\ SerializedSize = 50001
    /\ Settings.fastdirty
    /\ origHash # calcHash(lines)

(* C6: fast-dirty mode is sticky: no step of Save, SaveAs, SaveWithSudo
   or SaveAsWithSudo, failed or not, turns a set fastdirty off, and none
   changes the content hash while fastdirty is set. *)
FastDirtyIsSticky ==
    [][Settings.fastdirty => (Settings'.fastdirty /\ origHash' = origHash)]_vars

\* a buffer opened with fastdirty off (its hash was taken), on which an
\* earlier save turned fastdirty on: a later save of a small text went
\* through, fastdirty is still on and the hash is not that of the text
SmallSaveKeptFastDirty ==
    /\ last.op \in NormalSaves
    /\ last.err = Nil
    /\ last.pre.fastdirty
    /\ Settings.fastdirty
    /\ SerializedSize <= 50000
    /\ origHash # ZeroHash
    /\ origHash # calcHash(lines)

--------------------------------------------------------------------------
(* C7: when SaveAs reaches the encoded writer, the error that comes back
   is the earliest of the open, callback and close steps: the open error
   if the open failed, else the callback's error if it failed (whether
   or not the close failed too), else the close error if the close
   failed, and nil only when all three succeeded. *)
WriterReturnsEarliestError ==
    (Returned /\ Called("open")) =>
        last.err = IF Failed("open") THEN ErrOpen
                   ELSE IF Failed("fn") THEN ErrWrite
                   ELSE IF Failed("close") THEN ErrClose
                   ELSE Nil

\* the callback failed, the close failed too, and the write error came back
WriteErrorBeatsCloseError ==
    /\ Returned
    /\ CalledOk("open")
    /\ Failed("fn")
    /\ Failed("close")
    /\ last.err = ErrWrite

(* C8: when the writer opened the destination, the callback ran exactly
   once and the handle was closed exactly once, after the callback, on
   the success path and on the callback-error path; when the open failed
   the callback did not run and nothing was opened or closed. *)
WriterClosesWhatItOpened ==
    (Returned /\ Called("open")) =>
        /\ Cardinality(Calls("open")) = 1
        /\ IF CalledOk("open")
           THEN /\ Cardinality(Calls("fn")) = 1
                /\ Cardinality(Calls("close")) = 1
                /\ \A i \in Calls("open"), j \in Calls("fn"),
                      k \in Calls("close") : i < j /\ j < k
           ELSE ~Called("fn") /\ ~Called("close")

\* the callback failed on its second Write and the handle was closed
ClosedAfterFailedCallback ==
    /\ Returned
    /\ CalledOk("open")
    /\ Failed("fn")
    /\ Len(last.writes) = 1
    /\ Called("close")
    /\ last.err = ErrWrite

--------------------------------------------------------------------------
(* C3: after SaveAs(d) returns nil, isModified is false, Path is d and
   AbsPath is the absolute path of the file that was written, for every
   destination d, one that starts with the home shorthand included. *)
PathFieldsNameWrittenFile ==
    Succeeded =>
        /\ ~isModified
        /\ Path = last.filename
        /\ AbsPath = last.target

(* C4: after SaveAs(d) returns nil, ModTime is the timestamp of the file
   that was written, read after the write and the close: not a timestamp
   from before the write and not the value of a failed lookup, for every
   destination d, one that starts with the home shorthand included. *)
ModTimeIsWrittenFilesTimestamp ==
    Succeeded =>
        /\ ModTime = files[last.target].mtime
        /\ ModTime # NoTime
        /\ \A p \in DOMAIN last.pre.files : ModTime > last.pre.files[p].mtime

(* C9: in SaveAs the deferred bookkeeping (timestamp re-read, Serialize)
   runs on every exit path after the scratch check; when the path checks,
   the encoding lookup and the write all succeeded, a Serialize error is
   the error SaveAs returns; when an earlier step failed, SaveAs returns
   that earlier error. *)
BookkeepingErrorIsReturnedLast ==
    (Returned /\ ~Scratch) =>
        /\ Called("modtime")
        /\ Called("serialize")
        /\ IF CalledOk("fn") /\ CalledOk("close")
           THEN last.err = IF Failed("serialize") THEN ErrSerialize ELSE Nil
           ELSE last.err \notin {Nil, ErrSerialize}

--------------------------------------------------------------------------
\* the directory the last operation's destination lies in, the home
\* shorthand expanded
ParentDir == Abs(Dir(ReplaceHome(last.filename, TRUE)))

\* that directory and every directory above it
ParentChain == {SubSeq(ParentDir, 1, n) : n \in 1..Len(ParentDir)}

\* the last operation found the parent directory of its destination missing
ParentWasMissing ==
    /\ Returned
    /\ ~Scratch
    /\ Dir(last.filename) # <<".">>
    /\ ParentDir \notin last.pre.dirs

(* C10: when the parent directory of the destination is missing, SaveAs
   with mkparents off returns the "parent dirs don't exist" error, opens
   nothing and creates no directory and no file; with mkparents on it
   either returns the MkdirAll error without opening the destination, or
   has every missing ancestor in place before the open, and then returns
   nil with the file written unless the encoding lookup, the open, a
   write or the close fails. *)
MissingParentHandled ==
    ParentWasMissing =>
        IF ~Settings.mkparents
        THEN /\ last.err = ErrParent
             /\ ~Called("mkdirall")
             /\ ~Called("open")
             /\ FilesystemUntouched
        ELSE /\ Cardinality(Calls("mkdirall")) = 1
             /\ IF Failed("mkdirall")
                THEN /\ last.err = ErrMkdir
                     /\ ~Called("open")
                     /\ FilesystemUntouched
                ELSE /\ ParentChain \subseteq dirs
                     /\ \A i \in Calls("mkdirall"), j \in Calls("open") : i < j
                     /\ (Failed("lookup") \/ Failed("open") \/ Failed("fn")
                            \/ Failed("close"))
                        \/ (/\ last.err = Nil
                            /\ Abs(ReplaceHome(last.filename, TRUE))
                                  \in DOMAIN files)

\* with neither d nor d/e in place, SaveAs(d/e/f) made both and saved
MissingAncestorsCreated ==
    /\ ParentWasMissing
    /\ Settings.mkparents
    /\ last.filename = <<"d", "e", "f">>
    /\ Cwd \o <<"d">> \notin last.pre.dirs
    /\ {Cwd \o <<"d">>, Cwd \o <<"d", "e">>} \subseteq dirs
    /\ last.err = Nil
    /\ Cwd \o <<"d", "e", "f">> \in DOMAIN files

\* with mkparents off, the same call was refused
MissingParentRefused ==
    /\ ParentWasMissing
    /\ ~Settings.mkparents
    /\ last.err = ErrParent

--------------------------------------------------------------------------
\* the last operation was a privileged save that got as far as cmd.Wait()
SudoReturned == last.op \in SudoSaves /\ Called("wait")

(* C11: when SaveAsWithSudo(d) fails (the helper was not spawned, was
   killed or exited non-zero) it returns a non-nil error, isModified,
   the content hash, ModTime and fastdirty are what they were before the
   call, and Path and AbsPath name d all the same; a helper that was not
   spawned always makes the call fail; when the helper exits zero,
   isModified is false and ModTime is read again from the destination. *)
SudoFailureKeepsBookkeeping ==
    SudoReturned =>
        /\ Path = last.filename
        /\ AbsPath = Abs(last.filename)
        /\ Failed("start") => Failed("wait")
        /\ IF Failed("wait")
           THEN /\ last.err # Nil
                /\ isModified = last.pre.isModified
                /\ origHash = last.pre.origHash
                /\ ModTime = last.pre.ModTime
                /\ Settings.fastdirty = last.pre.fastdirty
           ELSE /\ ~isModified
                /\ \A i \in Calls("wait"), j \in Calls("modtime") : i < j
                /\ CalledOk("modtime")
                /\ ModTime = files[Abs(last.filename)].mtime
                /\ ModTime > last.pre.ModTime

\* the helper of SaveAsWithSudo("~/f") was not spawned: the modified
\* buffer is still modified and carries the new path
SudoSpawnFailureKeptModified ==
    /\ SudoReturned
    /\ last.op = "SaveAsWithSudo"
    /\ Failed("start")
    /\ last.err = ErrWait
    /\ isModified
    /\ last.pre.Path = <<"f">>
    /\ Path = <<"~", "f">>

(* C12: the interrupt redirection lasts as long as the helper: once
   SaveAsWithSudo has returned (the helper exited zero or non-zero, or
   was not spawned), its listener is deregistered and its forwarding
   goroutine has ended, so between privileged saves no listener and no
   goroutine is left and an interrupt is not intercepted. *)
RedirectionEndsWithHelper ==
    pc = "idle" => (listeners = 0 /\ forwarders = 0)

(* C13: an interrupt that arrives while the redirection is in place
   (before the helper is started, after a failed start, while the helper
   runs) never takes the host down: the forwarding goroutine calls Kill
   only on a helper process that exists. *)
InterruptNeverCrashesHost == pc # "crashed"

--------------------------------------------------------------------------
\* the last operation was a normal save that got past its scratch check
Normalised == Returned /\ ~Scratch

\* the byte string s is made of whitespace only
AllSpace(s) == \A n \in DOMAIN s : IsSpace(s[n][1])

(* C14: with eofnewline set, SaveAs on a text whose last line is not
   empty (the text does not end in a newline) appends exactly one
   newline, before the destination is opened, and the bytes written end
   in it; on a text whose last line is empty (it ends in a newline, or
   has no character at all) it appends nothing, so that a save that
   follows a save adds no second newline. *)
EofNewlineAddsAtMostOne ==
    (Normalised /\ Settings.eofnewline) =>
        LET k == Len(last.pre.lines)
        IN  /\ Len(lines) \in {k, k + 1}
            /\ k = 0 => Len(lines) = 0
            /\ ~Settings.rmtrailingws => SubSeq(lines, 1, k) = last.pre.lines
            /\ k > 0 =>
                  IF lines[k] # <<>>
                  THEN /\ Len(lines) = k + 1
                       /\ lines[k + 1] = <<>>
                       /\ Cardinality(Calls("insert")) = 1
                  ELSE /\ Len(lines) = k
                       /\ ~Called("insert")
            /\ \A i \in Calls("insert"), j \in Calls("open") : i < j
            /\ Succeeded => files[last.target].data = Joined(lines, Terminator)

\* a text without a final newline was saved with one terminator after it
EofNewlineAppended ==
    /\ Succeeded
    /\ Settings.eofnewline
    /\ ~Settings.rmtrailingws
    /\ last.pre.lines # <<>>
    /\ lines = Append(last.pre.lines, <<>>)
    /\ files[last.target].data =
          Cat(Joined(last.pre.lines, Terminator), Terminator)

(* C15: with rmtrailingws set, SaveAs replaces every line of the buffer
   (none skipped) by the line without its trailing whitespace: the new
   line is a prefix of the old one, does not end in whitespace, and what
   was cut off is whitespace only; trimming removes no line (b.Remove is
   called once for each line), and RelocateCursors runs once, after the
   last removal and before the destination is opened or written and
   before Serialize. *)
TrailingWhitespaceTrimmed ==
    (Normalised /\ Settings.rmtrailingws) =>
        LET k == Len(last.pre.lines)
        IN  /\ Len(lines) >= k
            /\ ~Settings.eofnewline => Len(lines) = k
            /\ \A i \in 1..k :
                  LET old == last.pre.lines[i]
                      new == lines[i]
                  IN  /\ new = Take(old, BLen(new))
                      /\ new = <<>> \/ ~IsSpace(new[Len(new)][1])
                      /\ AllSpace(Drop(old, BLen(new)))
            /\ Cardinality(Calls("remove")) = k
            /\ Cardinality(Calls("relocate")) = 1
            /\ \A i \in Calls("remove"), j \in Calls("relocate") : i < j
            /\ \A i \in Calls("relocate"),
                  j \in Calls("open") \cup Calls("fn") \cup Calls("serialize") :
                     i < j

\* a line of text and blank and a line of blank and tab were saved as a
\* line of text and an empty line
BlankLineTrimmedToEmpty ==
    /\ Succeeded
    /\ Settings.rmtrailingws
    /\ ~Settings.eofnewline
    /\ last.pre.lines = <<<<<<"a", 1>>, <<"SP", 1>>>>,
                          <<<<"SP", 1>>, <<"TAB", 1>>>>>>
    /\ lines = <<<<<<"a", 1>>>>, <<>>>>
    /\ files[last.target].data = <<<<"a", 1>>, <<"LF", 1>>>>

(* C16: saving is idempotent: for every text, every setting of
   rmtrailingws and eofnewline and both line endings, a successful Save
   that directly follows a successful Save (no edit in between) hands
   the writer the same bytes, leaves the same bytes in the same file,
   and leaves the lines as they were. *)
SavingIsIdempotent ==
    [][(/\ last.op = "Save" /\ last.err = Nil
        /\ last'.op = "Save" /\ last'.err = Nil
        /\ now' > now)
       => (/\ lines' = lines
           /\ last'.writes = last.writes
           /\ last'.target = last.target
           /\ files'[last'.target].data = files[last.target].data)]_vars

\* a second Save in a row, both normalisations on, DOS endings: the file
\* was written again and holds what it held
SavedTwiceSameBytes ==
    /\ last.op = "Save"
    /\ last.err = Nil
    /\ Settings.rmtrailingws
    /\ Settings.eofnewline
    /\ Endings = "dos"
    /\ ~last.pre.isModified
    /\ now = MaxTime
    /\ last.target \in DOMAIN last.pre.files
    /\ last.pre.files[last.target].mtime = now - 1
    /\ files[last.target].data = last.pre.files[last.target].data
    /\ lines = <<<<<<"a", 1>>>>, <<>>>>

--------------------------------------------------------------------------
(* C17: in SaveAs the encoding is looked up before the destination is
   opened: with an encoding name that is not known SaveAs never opens
   the destination, no file is created, emptied or written (a file at
   the destination keeps its bytes and its timestamp), and the error
   returned is the lookup error unless the parent-directory step had
   already failed; with a known name the lookup still comes first. *)
LookupPrecedesOpen ==
    Normalised =>
        /\ \A i \in Calls("lookup"), j \in Calls("open") : i < j
        /\ Called("open") => CalledOk("lookup")
        /\ Settings.encoding \notin KnownEncodings =>
              /\ ~Called("open")
              /\ files = last.pre.files
              /\ IF Called("lookup")
                 THEN Failed("lookup") /\ last.err = ErrEncoding
                 ELSE last.err \in {ErrParent, ErrMkdir}

\* a modified buffer was saved over its file under an unknown encoding
\* name: the lookup error came back and the file holds the old text
UnknownEncodingKeptFile ==
    /\ Normalised
    /\ last.filename = <<"f">>
    /\ last.err = ErrEncoding
    /\ isModified
    /\ lines = <<>>
    /\ Abs(last.filename) \in DOMAIN files
    /\ files[Abs(last.filename)].data = <<<<"a", 1>>>>
    /\ files[Abs(last.filename)].mtime = last.pre.files[Abs(last.filename)].mtime

--------------------------------------------------------------------------
\* the errors SaveAs raises after its scratch check
LateErrors == {ErrParent, ErrMkdir, ErrEncoding, ErrOpen, ErrWrite, ErrClose}

(* C18: when SaveAs returns an error raised after the scratch check (the
   parent directory is missing, MkdirAll fails, the encoding is unknown,
   the open, a write or the close fails), Path, AbsPath, isModified, the
   content hash and fastdirty are what they were before the call; a
   modified buffer stays modified. *)
FailedSaveKeepsBookkeeping ==
    (Returned /\ last.err \in LateErrors) =>
        /\ Path = last.pre.Path
        /\ AbsPath = last.pre.AbsPath
        /\ isModified = last.pre.isModified
        /\ origHash = last.pre.origHash
        /\ Settings.fastdirty = last.pre.fastdirty

\* a modified buffer with its hash taken, both normalisations on: SaveAs
\* to a new name emptied the destination, failed in a write, and the
\* buffer is still modified under its old name and hash
WriteErrorKeptBufferModified ==
    /\ Returned
    /\ last.err = ErrWrite
    /\ last.filename = <<"d", "e", "f">>
    /\ Settings.rmtrailingws
    /\ Settings.eofnewline
    /\ ~Settings.fastdirty
    /\ lines # last.pre.lines
    /\ files # last.pre.files
    /\ isModified
    /\ Path = <<"f">>
    /\ origHash = calcHash(<<Rep("a", 1)>>)

--------------------------------------------------------------------------
\* the directories among the entries LoadAllPlugins last found
LoadedDirs == SelectSeq(last.listing, LAMBDA f : f.isDir)

(* C19: after LoadAllPlugins returns nil the registry holds one entry
   for each directory of the plugins directory, in the order of the
   listing: each entry is a plugin (not nil) that carries its
   directory's name, the registry is as long as there are directories,
   and a file that is no directory adds nothing. *)
RegistryHoldsLoadedPlugins ==
    (last.op = "LoadAllPlugins" /\ last.err = Nil) =>
        /\ Len(plugins) = Len(LoadedDirs)
        /\ \A i \in DOMAIN plugins :
              /\ plugins[i] # NilPlugin
              /\ plugins[i][1].Name = LoadedDirs[i].name

\* the plugin the last call was made on
Target == plugins[last.plugin][1]

(* C20: on a plugin made by NewPluginFromDir, RegisterCallback never
   crashes: when the Lua function exists it stores it under the name and
   returns nil, when it does not it returns ErrNoSuchFunction and leaves
   the table as it was; DoCallback(name) returns ErrNoSuchFunction
   without a call into Lua when nothing is stored under the name, and
   otherwise calls the function stored last. *)
CallbacksFollowRegistrations ==
    /\ last.op = "RegisterCallback" =>
          /\ pc # "crashed"
          /\ IF GetField(Target, last.fn) # LuaNil
             THEN /\ last.err = Nil
                  /\ Target.callbacks.made
                  /\ last.name \in DOMAIN Target.callbacks.entries
                  /\ Target.callbacks.entries[last.name] = last.fn
             ELSE /\ last.err = ErrNoSuchFunction
                  /\ plugins = last.pre
    /\ last.op = "DoCallback" =>
          IF Target.callbacks.made
                /\ last.name \in DOMAIN Target.callbacks.entries
          THEN last.luaCalls = <<Target.callbacks.entries[last.name]>>
          ELSE last.err = ErrNoSuchFunction /\ last.luaCalls = <<>>

==========================================================================
